---- MODULE Spec2Model ----
(***************************************************************************)
(* rs2sky: trace-context / span lifecycle (src/src/context/trace_context.rs)*)
(* and the sw8 propagation header codec (src/src/context/propagation.rs).  *)
(*                                                                         *)
(* A Rust String / &str is modelled as the sequence of its UTF-8 bytes     *)
(* (integers 0..255), so that splitting on '-', base64 and the UTF-8 check *)
(* are computed on the bytes as the code computes them.                    *)
(***************************************************************************)
EXTENDS Integers, Sequences, FiniteSets, TLC

\* ------------------------------------------------------------------------
\* Result<T, &str>
\* ------------------------------------------------------------------------
Ok(v) == [ok |-> TRUE, val |-> v]

Err(m) == [ok |-> FALSE, err |-> m]

\* ------------------------------------------------------------------------
\* Bytes of the characters the codec looks at
\* ------------------------------------------------------------------------
Dash == 45

Plus == 43

Slash == 47

Pad == 61

Digit0 == 48

Digit1 == 49

IsDigit(b) == b >= 48 /\ b <= 57

\* ------------------------------------------------------------------------
\* u32, kept at its width as two 16-bit limbs <<hi, lo>>
\* ------------------------------------------------------------------------
Limb == 65536

U32Of(n) == <<n \div Limb, n % Limb>>

\* mutant: the arithmetic wraps at 32 bits
U32MulAdd_wrapping(v, d) ==
    LET lo == v[2] * 10 + d
        hi == v[1] * 10 + (lo \div Limb)
    IN  Ok(<<hi % Limb, lo % Limb>>)

\* v * 10 + d with the overflow check of u32::from_str (checked_mul /
\* checked_add): FALSE in field ok when the result exceeds 2^32 - 1
U32MulAdd(v, d) ==
    LET lo == v[2] * 10 + d
        hi == v[1] * 10 + (lo \div Limb)
    IN  IF hi >= Limb THEN Err("PosOverflow") ELSE Ok(<<hi, lo % Limb>>)

RECURSIVE ParseDigits(_, _, _)
ParseDigits(s, i, acc) ==
    IF i > Len(s) THEN Ok(acc)
    ELSE IF ~IsDigit(s[i]) THEN Err("InvalidDigit")
    ELSE LET r == U32MulAdd(acc, s[i] - Digit0)
         IN  IF r.ok THEN ParseDigits(s, i + 1, r.val) ELSE r

\* str::parse::<u32>: an optional leading '+', then one or more decimal
\* digits whose value fits 32 bits; no sign '-', no blanks
ParseU32(s) ==
    IF s = <<>> THEN Err("Empty")
    ELSE LET d == IF s[1] = Plus THEN Tail(s) ELSE s
         IN  IF d = <<>> THEN Err("InvalidDigit") ELSE ParseDigits(d, 1, <<0, 0>>)

\* ------------------------------------------------------------------------
\* base64, standard alphabet with padding
\* ------------------------------------------------------------------------
B64Value(b) ==
    IF b >= 65 /\ b <= 90 THEN b - 65
    ELSE IF b >= 97 /\ b <= 122 THEN b - 97 + 26
    ELSE IF b >= 48 /\ b <= 57 THEN b - 48 + 52
    ELSE IF b = Plus THEN 62
    ELSE IF b = Slash THEN 63
    ELSE -1

B64Char(v) ==
    IF v <= 25 THEN v + 65
    ELSE IF v <= 51 THEN v - 26 + 97
    ELSE IF v <= 61 THEN v - 52 + 48
    ELSE IF v = 62 THEN Plus
    ELSE Slash

\* one group of four characters; npad of the last ones are '='
B64Group(s, i, npad) ==
    LET a == B64Value(s[i])
        b == B64Value(s[i + 1])
        c == IF npad >= 2 THEN 0 ELSE B64Value(s[i + 2])
        d == IF npad >= 1 THEN 0 ELSE B64Value(s[i + 3])
    IN  IF a < 0 \/ b < 0 \/ c < 0 \/ d < 0 THEN Err("InvalidByte")
        ELSE IF npad = 2 /\ b % 16 # 0 THEN Err("InvalidLastSymbol")
        ELSE IF npad = 1 /\ c % 4 # 0 THEN Err("InvalidLastSymbol")
        ELSE LET b1 == a * 4 + (b \div 16)
                 b2 == (b % 16) * 16 + (c \div 4)
                 b3 == (c % 4) * 64 + d
             IN  Ok(IF npad = 2 THEN <<b1>>
                    ELSE IF npad = 1 THEN <<b1, b2>>
                    ELSE <<b1, b2, b3>>)

RECURSIVE B64Groups(_, _, _, _)
B64Groups(s, i, npad, acc) ==
    IF i > Len(s) THEN Ok(acc)
    ELSE LET g == B64Group(s, i, IF i + 3 = Len(s) THEN npad ELSE 0)
         IN  IF g.ok THEN B64Groups(s, i + 4, npad, acc \o g.val) ELSE g

\* base64::decode
B64Decode(s) ==
    IF Len(s) % 4 # 0 THEN Err("InvalidLength")
    ELSE IF s = <<>> THEN Ok(<<>>)
    ELSE LET n == Len(s)
             npad == IF s[n] # Pad THEN 0 ELSE IF s[n - 1] # Pad THEN 1 ELSE 2
         IN  B64Groups(s, 1, npad, <<>>)

RECURSIVE B64Encode(_)
B64Encode(bs) ==
    IF bs = <<>> THEN <<>>
    ELSE IF Len(bs) = 1 THEN
        <<B64Char(bs[1] \div 4), B64Char((bs[1] % 4) * 16), Pad, Pad>>
    ELSE IF Len(bs) = 2 THEN
        <<B64Char(bs[1] \div 4),
          B64Char((bs[1] % 4) * 16 + (bs[2] \div 16)),
          B64Char((bs[2] % 16) * 4), Pad>>
    ELSE
        <<B64Char(bs[1] \div 4),
          B64Char((bs[1] % 4) * 16 + (bs[2] \div 16)),
          B64Char((bs[2] % 16) * 4 + (bs[3] \div 64)),
          B64Char(bs[3] % 64)>> \o B64Encode(SubSeq(bs, 4, Len(bs)))

\* ------------------------------------------------------------------------
\* String::from_utf8
\* ------------------------------------------------------------------------
IsCont(bs, i) == i <= Len(bs) /\ bs[i] >= 128 /\ bs[i] <= 191

InRange(bs, i, lo, hi) == i <= Len(bs) /\ bs[i] >= lo /\ bs[i] <= hi

RECURSIVE Utf8ValidFrom(_, _)
Utf8ValidFrom(bs, i) ==
    IF i > Len(bs) THEN TRUE
    ELSE LET b == bs[i] IN
        IF b < 128 THEN Utf8ValidFrom(bs, i + 1)
        ELSE IF b >= 194 /\ b <= 223 THEN
            IsCont(bs, i + 1) /\ Utf8ValidFrom(bs, i + 2)
        ELSE IF b = 224 THEN
            InRange(bs, i + 1, 160, 191) /\ IsCont(bs, i + 2) /\ Utf8ValidFrom(bs, i + 3)
        ELSE IF b = 237 THEN
            InRange(bs, i + 1, 128, 159) /\ IsCont(bs, i + 2) /\ Utf8ValidFrom(bs, i + 3)
        ELSE IF b >= 225 /\ b <= 239 THEN
            IsCont(bs, i + 1) /\ IsCont(bs, i + 2) /\ Utf8ValidFrom(bs, i + 3)
        ELSE IF b = 240 THEN
            InRange(bs, i + 1, 144, 191) /\ IsCont(bs, i + 2) /\ IsCont(bs, i + 3)
                /\ Utf8ValidFrom(bs, i + 4)
        ELSE IF b >= 241 /\ b <= 243 THEN
            IsCont(bs, i + 1) /\ IsCont(bs, i + 2) /\ IsCont(bs, i + 3)
                /\ Utf8ValidFrom(bs, i + 4)
        ELSE IF b = 244 THEN
            InRange(bs, i + 1, 128, 143) /\ IsCont(bs, i + 2) /\ IsCont(bs, i + 3)
                /\ Utf8ValidFrom(bs, i + 4)
        ELSE FALSE

Utf8Valid(bs) == Utf8ValidFrom(bs, 1)

\* ------------------------------------------------------------------------
\* ContextDecoder (src/src/context/propagation.rs)
\* ------------------------------------------------------------------------
\* header_value.split('-').collect(): the pieces between the '-' bytes, one more
\* than there are '-' (empty pieces included)
Split(s) ==
    LET dashes == {i \in DOMAIN s : s[i] = Dash}
        n == Cardinality(dashes)
        pos(k) == IF k = 0 THEN 0
                  ELSE IF k = n + 1 THEN Len(s) + 1
                  ELSE CHOOSE i \in dashes : Cardinality({j \in dashes : j < i}) = k - 1
    IN  [k \in 1..(n + 1) |-> SubSeq(s, pos(k - 1) + 1, pos(k) - 1)]

PropagationContext(do_sample, parent_trace_id, parent_trace_segment_id, parent_span_id, parent_service, parent_service_instance, destination_endpoint, destination_address) ==
    [do_sample |-> do_sample,
     parent_trace_id |-> parent_trace_id,
     parent_trace_segment_id |-> parent_trace_segment_id,
     parent_span_id |-> parent_span_id,
     parent_service |-> parent_service,
     parent_service_instance |-> parent_service_instance,
     destination_endpoint |-> destination_endpoint,
     destination_address |-> destination_address]

try_parse_parent_span_id(id) ==
    LET result == ParseU32(id)
    IN  IF result.ok THEN Ok(result.val)
        ELSE Err("failed to parse span id from parent.")

\* mutant: everything that is not "0" counts as sampled
try_parse_sample_status_lenient(status) ==
    IF status = <<Digit0>> THEN Ok(FALSE) ELSE Ok(TRUE)

try_parse_sample_status(status) ==
    IF status = <<Digit0>> THEN Ok(FALSE)
    ELSE IF status = <<Digit1>> THEN Ok(TRUE)
    ELSE Err("failed to parse sample status.")

b64_encoded_into_string(enc) ==
    LET result == B64Decode(enc)
    IN  IF result.ok /\ Utf8Valid(result.val) THEN Ok(result.val)
        ELSE Err("failed to decode value.")

\* mutant: service and instance read from each other's piece
decode_pieces_service_swapped(pieces) ==
    LET do_sample == try_parse_sample_status(pieces[1])
        parent_trace_id == b64_encoded_into_string(pieces[2])
        parent_trace_segment_id == b64_encoded_into_string(pieces[3])
        parent_span_id == try_parse_parent_span_id(pieces[4])
        parent_service == b64_encoded_into_string(pieces[6])
        parent_service_instance == b64_encoded_into_string(pieces[5])
        destination_endpoint == b64_encoded_into_string(pieces[7])
        destination_address == b64_encoded_into_string(pieces[8])
    IN  IF ~do_sample.ok THEN do_sample
        ELSE IF ~parent_trace_id.ok THEN parent_trace_id
        ELSE IF ~parent_trace_segment_id.ok THEN parent_trace_segment_id
        ELSE IF ~parent_span_id.ok THEN parent_span_id
        ELSE IF ~parent_service.ok THEN parent_service
        ELSE IF ~parent_service_instance.ok THEN parent_service_instance
        ELSE IF ~destination_endpoint.ok THEN destination_endpoint
        ELSE IF ~destination_address.ok THEN destination_address
        ELSE Ok(PropagationContext(do_sample.val, parent_trace_id.val,
                                   parent_trace_segment_id.val, parent_span_id.val,
                                   parent_service.val, parent_service_instance.val,
                                   destination_endpoint.val, destination_address.val))

\* mutant: destination endpoint and address read from each other's piece
decode_pieces_swapped(pieces) ==
    LET do_sample == try_parse_sample_status(pieces[1])
        parent_trace_id == b64_encoded_into_string(pieces[2])
        parent_trace_segment_id == b64_encoded_into_string(pieces[3])
        parent_span_id == try_parse_parent_span_id(pieces[4])
        parent_service == b64_encoded_into_string(pieces[5])
        parent_service_instance == b64_encoded_into_string(pieces[6])
        destination_endpoint == b64_encoded_into_string(pieces[8])
        destination_address == b64_encoded_into_string(pieces[7])
    IN  IF ~do_sample.ok THEN do_sample
        ELSE IF ~parent_trace_id.ok THEN parent_trace_id
        ELSE IF ~parent_trace_segment_id.ok THEN parent_trace_segment_id
        ELSE IF ~parent_span_id.ok THEN parent_span_id
        ELSE IF ~parent_service.ok THEN parent_service
        ELSE IF ~parent_service_instance.ok THEN parent_service_instance
        ELSE IF ~destination_endpoint.ok THEN destination_endpoint
        ELSE IF ~destination_address.ok THEN destination_address
        ELSE Ok(PropagationContext(do_sample.val, parent_trace_id.val,
                                   parent_trace_segment_id.val, parent_span_id.val,
                                   parent_service.val, parent_service_instance.val,
                                   destination_endpoint.val, destination_address.val))

\* the chain of `?` of decode: the first failing piece decides the error
decode_pieces(pieces) ==
    LET do_sample == try_parse_sample_status(pieces[1])
        parent_trace_id == b64_encoded_into_string(pieces[2])
        parent_trace_segment_id == b64_encoded_into_string(pieces[3])
        parent_span_id == try_parse_parent_span_id(pieces[4])
        parent_service == b64_encoded_into_string(pieces[5])
        parent_service_instance == b64_encoded_into_string(pieces[6])
        destination_endpoint == b64_encoded_into_string(pieces[7])
        destination_address == b64_encoded_into_string(pieces[8])
    IN  IF ~do_sample.ok THEN do_sample
        ELSE IF ~parent_trace_id.ok THEN parent_trace_id
        ELSE IF ~parent_trace_segment_id.ok THEN parent_trace_segment_id
        ELSE IF ~parent_span_id.ok THEN parent_span_id
        ELSE IF ~parent_service.ok THEN parent_service
        ELSE IF ~parent_service_instance.ok THEN parent_service_instance
        ELSE IF ~destination_endpoint.ok THEN destination_endpoint
        ELSE IF ~destination_address.ok THEN destination_address
        ELSE Ok(PropagationContext(do_sample.val, parent_trace_id.val,
                                   parent_trace_segment_id.val, parent_span_id.val,
                                   parent_service.val, parent_service_instance.val,
                                   destination_endpoint.val, destination_address.val))

\* mutant: only a header with too few pieces is refused
decode_min8(header) ==
    LET pieces == Split(header)
    IN  IF Len(pieces) < 8
        THEN Err("failed to parse propagation context: it must have 8 properties.")
        ELSE decode_pieces(pieces)

decode(header) ==
    LET pieces == Split(header)
    IN  IF Len(pieces) # 8
        THEN Err("failed to parse propagation context: it must have 8 properties.")
        ELSE decode_pieces(pieces)

\* ------------------------------------------------------------------------
\* Strings the operations are called with (UTF-8 bytes)
\* ------------------------------------------------------------------------
S_empty == <<>>

S_service == <<115, 101, 114, 118, 105, 99, 101>>   \* "service"

S_instance == <<105, 110, 115, 116, 97, 110, 99, 101>>   \* "instance"

S_mesh == <<109, 101, 115, 104>>   \* "mesh"

S_svc == <<115, 118, 99>>   \* "svc"

S_cafe == <<195, 169>>   \* "e" with acute accent, two bytes

S_endpoint == <<101, 110, 100, 112, 111, 105, 110, 116>>   \* "endpoint"

S_address == <<97, 100, 100, 114, 101, 115, 115>>   \* "address"

S_health == <<47, 97, 112, 105, 47, 118, 49, 47, 104, 101, 97, 108, 116, 104>>   \* "/api/v1/health"

S_example == <<101, 120, 97, 109, 112, 108, 101, 46, 99, 111, 109, 58, 56, 48, 56, 48>>   \* "example.com:8080"

S_op1 == <<111, 112, 49>>   \* "op1"

S_peer == <<101, 120, 97, 109, 112, 108, 101, 46, 99, 111, 109, 47, 116, 101, 115, 116>>   \* "example.com/test"

S_1 == <<49>>   \* "1"

S_5 == <<53>>   \* "5"

S_id_a == <<97, 49>>   \* "a1"

S_id_b == <<98, 50>>   \* "b2"

S_hoge == <<104, 111, 103, 101>>   \* "hoge"

S_fuga == <<102, 117, 103, 97>>   \* "fuga"

\* (service, instance) names a process may be given
Identities == {<<S_service, S_instance>>, <<S_cafe, S_empty>>}

\* identifiers the generator hands out
Ids == {S_id_a, S_id_b}

OperationNames == {S_op1}

RemotePeers == {S_peer}

\* (sampled, endpoint, address) of an outbound call
EncodeInputs == {<<TRUE, S_endpoint, S_address>>, <<FALSE, S_empty, S_svc>>}

TagInputs == {<<S_hoge, S_fuga>>}

S_hoge2 == <<104, 111, 103, 101, 50>>   \* "hoge2"

S_fuga2 == <<102, 117, 103, 97, 50>>   \* "fuga2"

\* the message of test create_span: two pairs
LogInputs == {<<<<S_hoge, S_fuga>>, <<S_hoge2, S_fuga2>>>>}

\* ------------------------------------------------------------------------
\* Bounds of the model
\* ------------------------------------------------------------------------
MaxSpans == 3

MaxTime == 2

MaxNotes == 1

None == [none |-> TRUE]

\* ------------------------------------------------------------------------
\* Span (src/src/context/trace_context.rs)
\* ------------------------------------------------------------------------
SpanType_Entry == "Entry"

SpanType_Exit == "Exit"

SpanLayer_Http == "Http"

RefType_CrossProcess == "CrossProcess"

ComponentId == 11000

\* mutant: span ids numbered from the parent id itself
Span_new_zero_based(parent_span_id, operation_name, remote_peer, span_type, span_layer, skip_analysis, time) ==
    [span_id |-> parent_span_id,
     parent_span_id |-> parent_span_id,
     start_time |-> time, end_time |-> 0, refs |-> <<>>,
     operation_name |-> operation_name, peer |-> remote_peer,
     span_type |-> span_type, span_layer |-> span_layer,
     component_id |-> ComponentId, is_error |-> FALSE,
     tags |-> <<>>, logs |-> <<>>, skip_analysis |-> skip_analysis]

\* mutant: the argument taken as the span's own id, the parent one below it
Span_new_shifted(parent_span_id, operation_name, remote_peer, span_type, span_layer, skip_analysis, time) ==
    [span_id |-> parent_span_id,
     parent_span_id |-> parent_span_id - 1,
     start_time |-> time, end_time |-> 0, refs |-> <<>>,
     operation_name |-> operation_name, peer |-> remote_peer,
     span_type |-> span_type, span_layer |-> span_layer,
     component_id |-> ComponentId, is_error |-> FALSE,
     tags |-> <<>>, logs |-> <<>>, skip_analysis |-> skip_analysis]

\* mutant: a new span has its end_time set already
Span_new_closed(parent_span_id, operation_name, remote_peer, span_type, span_layer, skip_analysis, time) ==
    [span_id |-> parent_span_id + 1,
     parent_span_id |-> parent_span_id,
     start_time |-> time,
     end_time |-> time,
     refs |-> <<>>,
     operation_name |-> operation_name,
     peer |-> remote_peer,
     span_type |-> span_type,
     span_layer |-> span_layer,
     component_id |-> ComponentId,
     is_error |-> FALSE,
     tags |-> <<>>,
     logs |-> <<>>,
     skip_analysis |-> skip_analysis]

Span_new(parent_span_id, operation_name, remote_peer, span_type, span_layer, skip_analysis, time) ==
    [span_id |-> parent_span_id + 1,
     parent_span_id |-> parent_span_id,
     start_time |-> time,
     end_time |-> 0,
     refs |-> <<>>,
     operation_name |-> operation_name,
     peer |-> remote_peer,
     span_type |-> span_type,
     span_layer |-> span_layer,
     component_id |-> ComponentId,
     is_error |-> FALSE,
     tags |-> <<>>,
     logs |-> <<>>,
     skip_analysis |-> skip_analysis]

\* mutant: close() records nothing
Span_close_noop(span, time) == span

Span_close(span, time) == [span EXCEPT !.end_time = time]

\* mutant: the pairs of the message are stored last first
Span_add_log_reversed(span, message, time) ==
    [span EXCEPT !.logs = Append(@, [time |-> time,
        data |-> [i \in 1..Len(message) |->
                    [key |-> message[Len(message) + 1 - i][1],
                     value |-> message[Len(message) + 1 - i][2]]]])]

Span_add_log(span, message, time) ==
    [span EXCEPT !.logs = Append(@, [time |-> time,
        data |-> [i \in 1..Len(message) |-> [key |-> message[i][1], value |-> message[i][2]]]])]

Span_add_tag(span, tag) ==
    [span EXCEPT !.tags = Append(@, [key |-> tag[1], value |-> tag[2]])]

Span_add_segment_reference(span, segment_reference) ==
    [span EXCEPT !.refs = Append(@, segment_reference)]

\* ------------------------------------------------------------------------
\* TracingContext (src/src/context/trace_context.rs)
\* ------------------------------------------------------------------------
\* RandomGenerator::generate(): an identifier not handed out before
RandomGenerator_generate(used) == Ids \ used

\* mutant: the two names end up in each other's field
TracingContext_default_swapped(trace_id, trace_segment_id, service_name, instance_name) ==
    [trace_id |-> trace_id,
     trace_segment_id |-> trace_segment_id,
     service |-> instance_name,
     service_instance |-> service_name,
     next_span_id |-> 0,
     spans |-> <<>>,
     segment_link |-> None]

TracingContext_default(trace_id, trace_segment_id, service_name, instance_name) ==
    [trace_id |-> trace_id,
     trace_segment_id |-> trace_segment_id,
     service |-> service_name,
     service_instance |-> instance_name,
     next_span_id |-> 0,
     spans |-> <<>>,
     segment_link |-> None]

\* mutant: the segment id of the parent is inherited
TracingContext_from_propagation_context_inherit(trace_segment_id, context) ==
    [trace_id |-> context.parent_trace_id,
     trace_segment_id |-> context.parent_trace_segment_id,
     service |-> context.parent_service,
     service_instance |-> context.parent_service_instance,
     next_span_id |-> 0,
     spans |-> <<>>,
     segment_link |-> context]

TracingContext_from_propagation_context(trace_segment_id, context) ==
    [trace_id |-> context.parent_trace_id,
     trace_segment_id |-> trace_segment_id,
     service |-> context.parent_service,
     service_instance |-> context.parent_service_instance,
     next_span_id |-> 0,
     spans |-> <<>>,
     segment_link |-> context]

\* mutant: the reference names this context's own segment as the parent segment
SegmentReference_from_link_own_segment(self) ==
    [ref_type |-> RefType_CrossProcess,
     trace_id |-> self.trace_id,
     parent_trace_segment_id |-> self.trace_segment_id,
     parent_span_id |-> self.segment_link.parent_span_id,
     parent_service |-> self.segment_link.parent_service,
     parent_service_instance |-> self.segment_link.parent_service_instance,
     parent_endpoint |-> self.segment_link.destination_endpoint,
     network_address_used_at_peer |-> self.segment_link.destination_address]

\* mutant: the reference names span 0 of the parent segment
SegmentReference_from_link_span_zero(self) ==
    [ref_type |-> RefType_CrossProcess,
     trace_id |-> self.trace_id,
     parent_trace_segment_id |-> self.segment_link.parent_trace_segment_id,
     parent_span_id |-> U32Of(0),
     parent_service |-> self.segment_link.parent_service,
     parent_service_instance |-> self.segment_link.parent_service_instance,
     parent_endpoint |-> self.segment_link.destination_endpoint,
     network_address_used_at_peer |-> self.segment_link.destination_address]

\* the SegmentReference create_entry_span builds from segment_link
SegmentReference_from_link(self) ==
    [ref_type |-> RefType_CrossProcess,
     trace_id |-> self.trace_id,
     parent_trace_segment_id |-> self.segment_link.parent_trace_segment_id,
     parent_span_id |-> self.segment_link.parent_span_id,
     parent_service |-> self.segment_link.parent_service,
     parent_service_instance |-> self.segment_link.parent_service_instance,
     parent_endpoint |-> self.segment_link.destination_endpoint,
     network_address_used_at_peer |-> self.segment_link.destination_address]

\* mutant: the guard of create_entry_span off by one
entry_span_result_offbyone(self, operation_name, time) ==
    IF self.next_span_id > 1 THEN Err("entry span have already exist.")
    ELSE LET span == Span_new(self.next_span_id, operation_name, S_empty,
                              SpanType_Entry, SpanLayer_Http, FALSE, time)
         IN  Ok(IF self.segment_link # None
                THEN Span_add_segment_reference(span, SegmentReference_from_link(self))
                ELSE span)

\* the value create_entry_span returns
entry_span_result(self, operation_name, time) ==
    IF self.next_span_id >= 1 THEN Err("entry span have already exist.")
    ELSE LET span == Span_new(self.next_span_id, operation_name, S_empty,
                              SpanType_Entry, SpanLayer_Http, FALSE, time)
         IN  Ok(IF self.segment_link # None
                THEN Span_add_segment_reference(span, SegmentReference_from_link(self))
                ELSE span)

\* mutant: create_exit_span without its guard
exit_span_result_unguarded(self, operation_name, remote_peer, time) ==
    Ok(Span_new(self.next_span_id, operation_name, remote_peer,
                SpanType_Exit, SpanLayer_Http, FALSE, time))

\* mutant: create_exit_span numbering from the id after next_span_id
exit_span_result_skip(self, operation_name, remote_peer, time) ==
    IF self.next_span_id = 0 THEN Err("entry span must be existed.")
    ELSE Ok(Span_new(self.next_span_id + 1, operation_name, remote_peer,
                     SpanType_Exit, SpanLayer_Http, FALSE, time))

\* the value create_exit_span returns
exit_span_result(self, operation_name, remote_peer, time) ==
    IF self.next_span_id = 0 THEN Err("entry span must be existed.")
    ELSE Ok(Span_new(self.next_span_id, operation_name, remote_peer,
                     SpanType_Exit, SpanLayer_Http, FALSE, time))

\* mutant: the spans come out last finalized first
convert_segment_object_result_swapped(self) ==
    [trace_id |-> self.trace_id,
     trace_segment_id |-> self.trace_segment_id,
     spans |-> self.spans,
     service |-> self.service_instance,
     service_instance |-> self.service,
     is_size_limited |-> FALSE]

convert_segment_object_result_reversed(self) ==
    [trace_id |-> self.trace_id,
     trace_segment_id |-> self.trace_segment_id,
     spans |-> [i \in 1..Len(self.spans) |-> self.spans[Len(self.spans) + 1 - i]],
     service |-> self.service,
     service_instance |-> self.service_instance,
     is_size_limited |-> FALSE]

convert_segment_object_result(self) ==
    [trace_id |-> self.trace_id,
     trace_segment_id |-> self.trace_segment_id,
     spans |-> self.spans,
     service |-> self.service,
     service_instance |-> self.service_instance,
     is_size_limited |-> FALSE]

\* ------------------------------------------------------------------------
\* encode_propagation: the eight fields of the header, joined by '-'
\* ------------------------------------------------------------------------
RECURSIVE ToDecimal(_)
ToDecimal(n) ==
    IF n < 10 THEN <<Digit0 + n>>
    ELSE Append(ToDecimal(n \div 10), Digit0 + (n % 10))

RECURSIVE Join(_)
Join(pieces) ==
    IF pieces = <<>> THEN <<>>
    ELSE IF Len(pieces) = 1 THEN pieces[1]
    ELSE pieces[1] \o <<Dash>> \o Join(Tail(pieces))

encode_propagation(context, do_sample, endpoint, address) ==
    Join(<<IF do_sample THEN <<Digit1>> ELSE <<Digit0>>,
           B64Encode(context.trace_id),
           B64Encode(context.trace_segment_id),
           ToDecimal(context.next_span_id),
           B64Encode(context.service),
           B64Encode(context.service_instance),
           B64Encode(endpoint),
           B64Encode(address)>>)

\* ------------------------------------------------------------------------
\* Headers a request may arrive with
\* ------------------------------------------------------------------------
\* "1-MQ==-NQ==-3-bWVzaA==-aW5zdGFuY2U=-L2FwaS92MS9oZWFsdGg=-ZXhhbXBsZS5jb206ODA4MA=="
H_basic == <<49, 45, 77, 81, 61, 61, 45, 78, 81, 61, 61, 45, 51, 45, 98, 87, 86, 122, 97, 65, 61, 61, 45, 97, 87, 53, 122, 100, 71, 70, 117, 89, 50, 85, 61, 45, 76, 50, 70, 119, 97, 83, 57, 50, 77, 83, 57, 111, 90, 87, 70, 115, 100, 71, 103, 61, 45, 90, 88, 104, 104, 98, 88, 66, 115, 90, 83, 53, 106, 98, 50, 48, 54, 79, 68, 65, 52, 77, 65, 61, 61>>

\* "0-YTE=-NQ==-0-w6k=--c3Zj-": trace "a1", segment "5", span 0, a two-byte
\* service name, empty instance, endpoint "svc", empty address
H_other == <<48, 45, 89, 84, 69, 61, 45, 78, 81, 61, 61, 45, 48, 45, 119, 54, 107, 61, 45, 45, 99, 51, 90, 106, 45>>

BaseHeaders == {H_basic, H_other}

\* the propagation contexts a continuing TracingContext is built from
PropagationContexts == {decode(h).val : h \in BaseHeaders}

\* ------------------------------------------------------------------------
\* State
\* ------------------------------------------------------------------------
\* a span without the field that close() writes
WithoutEndTime(span) == [f \in DOMAIN span \ {"end_time"} |-> span[f]]

VARIABLES
    ctx,            \* the TracingContext
    held,           \* the Box<Span> values the caller holds (created, not yet moved into finalize_span)
    now,            \* what time_fetcher.get() returns
    ret,            \* the last call: its name, its arguments and the value it returned
    header_value,   \* ContextDecoder.header_value
    built,          \* history: the constructor that built ctx and its argument
    created,        \* history: the spans returned by create_*_span, in creation order
    notes,          \* history: number of add_tag / add_log calls made since the initial state
    finalized,      \* history: the spans passed to finalize_span (all but the end_time it sets), in call order
    edits,          \* history: number of changes made to header_value
    queue,          \* the contexts in the channel of Reporter::start, oldest first
    task,           \* the background task of Reporter::start: where it is, and the message it took
    attempts,       \* the collect calls made on the sink so far: the stream sent and whether it was accepted
    senders,        \* per submitter: whether it still holds its Sender, how many contexts it has to send, how many sends it made
    accepted,       \* history: the contexts whose send the channel accepted, in that order
    refused         \* history: the contexts whose send returned an error

vars == <<ctx, held, now, ret, header_value, built, created, notes, finalized, edits,
          queue, task, attempts, senders, accepted, refused>>

ctxVars == <<ctx, held, now, built, created, notes, finalized>>

codecVars == <<header_value, edits>>

reporterVars == <<queue, task, attempts, senders, accepted, refused>>

\* ------------------------------------------------------------------------
\* Construction
\* ------------------------------------------------------------------------
\* Reporter::start has not been called
NoReporter ==
    /\ queue = <<>>
    /\ task = [pc |-> "none", message |-> None]
    /\ attempts = <<>>
    /\ senders = <<>>
    /\ accepted = <<>>
    /\ refused = <<>>

InitDefault ==
    \E id \in Identities, trace_id \in RandomGenerator_generate({}) :
    \E trace_segment_id \in RandomGenerator_generate({trace_id}) :
        /\ ctx = TracingContext_default(trace_id, trace_segment_id, id[1], id[2])
        /\ built = [by |-> "default", service_name |-> id[1], instance_name |-> id[2]]

InitFromPropagation ==
    \E context \in PropagationContexts :
    \E trace_segment_id \in RandomGenerator_generate({context.parent_trace_id,
                                                      context.parent_trace_segment_id}) :
        /\ ctx = TracingContext_from_propagation_context(trace_segment_id, context)
        /\ built = [by |-> "from_propagation_context", context |-> context]

Init ==
    /\ InitDefault \/ InitFromPropagation
    /\ held = {}
    /\ now = 1
    /\ ret = [op |-> "new"]
    /\ header_value = <<>>
    /\ created = <<>>
    /\ notes = 0
    /\ finalized = <<>>
    /\ edits = 0
    /\ NoReporter

\* ------------------------------------------------------------------------
\* Operations on the context and its spans
\* ------------------------------------------------------------------------
\* mutant: a refused create_entry_span uses up a span id all the same
create_entry_span_counting ==
    \E operation_name \in OperationNames :
        LET res == entry_span_result(ctx, operation_name, now) IN
        /\ ctx.next_span_id < MaxSpans
        /\ ret' = [op |-> "create_entry_span", pre |-> ctx.next_span_id,
                   ncreated |-> Len(created), res |-> res]
        /\ ctx' = [ctx EXCEPT !.next_span_id = @ + 1]
        /\ IF res.ok
           THEN /\ held' = held \cup {res.val}
                /\ created' = Append(created, res.val)
           ELSE UNCHANGED <<held, created>>
        /\ UNCHANGED <<now, built, finalized, notes, codecVars, reporterVars>>

create_entry_span ==
    \E operation_name \in OperationNames :
        LET res == entry_span_result(ctx, operation_name, now) IN
        /\ ret' = [op |-> "create_entry_span", pre |-> ctx.next_span_id,
                   ncreated |-> Len(created), res |-> res]
        /\ IF res.ok
           THEN /\ ctx' = [ctx EXCEPT !.next_span_id = @ + 1]
                /\ held' = held \cup {res.val}
                /\ created' = Append(created, res.val)
           ELSE UNCHANGED <<ctx, held, created>>
        /\ UNCHANGED <<now, built, finalized, notes, codecVars, reporterVars>>

create_exit_span ==
    /\ ctx.next_span_id < MaxSpans
    /\ \E operation_name \in OperationNames, remote_peer \in RemotePeers :
        LET res == exit_span_result(ctx, operation_name, remote_peer, now) IN
        /\ ret' = [op |-> "create_exit_span", pre |-> ctx.next_span_id,
                   ncreated |-> Len(created), res |-> res]
        /\ IF res.ok
           THEN /\ ctx' = [ctx EXCEPT !.next_span_id = @ + 1]
                /\ held' = held \cup {res.val}
                /\ created' = Append(created, res.val)
           ELSE UNCHANGED <<ctx, held, created>>
        /\ UNCHANGED <<now, built, finalized, notes, codecVars, reporterVars>>

add_tag ==
    /\ notes < MaxNotes
    /\ \E span \in held, tag \in TagInputs :
        /\ held' = (held \ {span}) \cup {Span_add_tag(span, tag)}
        /\ ret' = [op |-> "add_tag"]
    /\ notes' = notes + 1
    /\ UNCHANGED <<ctx, now, built, finalized, created, codecVars, reporterVars>>

add_log ==
    /\ notes < MaxNotes
    /\ \E span \in held, message \in LogInputs :
        /\ held' = (held \ {span}) \cup {Span_add_log(span, message, now)}
        /\ ret' = [op |-> "add_log"]
    /\ notes' = notes + 1
    /\ UNCHANGED <<ctx, now, built, finalized, created, codecVars, reporterVars>>

\* span.close() called by the holder of the span
close ==
    /\ \E span \in held :
        /\ held' = (held \ {span}) \cup {Span_close(span, now)}
        /\ ret' = [op |-> "close"]
    /\ UNCHANGED <<ctx, now, built, finalized, created, notes, codecVars, reporterVars>>

\* mutant: a span that is already closed keeps its end_time
finalize_span_closing_once ==
    /\ \E span \in held :
        /\ ctx' = [ctx EXCEPT !.spans =
                      Append(@, IF span.end_time # 0 THEN span ELSE Span_close(span, now))]
        /\ held' = held \ {span}
        /\ finalized' = Append(finalized, WithoutEndTime(span))
        /\ ret' = [op |-> "finalize_span"]
    /\ UNCHANGED <<now, built, created, notes, codecVars, reporterVars>>

\* mutant: the span is borrowed, the caller keeps it after the call
finalize_span_borrowing ==
    /\ \E span \in held :
        /\ ctx' = [ctx EXCEPT !.spans = Append(@, Span_close(span, now))]
        /\ held' = (held \ {span}) \cup {Span_close(span, now)}
        /\ Len(ctx.spans) < MaxSpans
        /\ finalized' = Append(finalized, WithoutEndTime(span))
        /\ ret' = [op |-> "finalize_span"]
    /\ UNCHANGED <<now, built, created, notes, codecVars, reporterVars>>

finalize_span ==
    /\ \E span \in held :
        /\ ctx' = [ctx EXCEPT !.spans = Append(@, Span_close(span, now))]
        /\ held' = held \ {span}
        /\ finalized' = Append(finalized, WithoutEndTime(span))
        /\ ret' = [op |-> "finalize_span"]
    /\ UNCHANGED <<now, built, created, notes, codecVars, reporterVars>>

\* mutant: the test helper stores the span in the context as well
finalize_span_for_test_pushing ==
    /\ \E span \in held :
        /\ held' = (held \ {span}) \cup {Span_close(span, now)}
        /\ ctx' = [ctx EXCEPT !.spans = Append(@, Span_close(span, now))]
        /\ ret' = [op |-> "finalize_span_for_test"]
    /\ UNCHANGED <<now, built, finalized, created, notes, codecVars, reporterVars>>

finalize_span_for_test ==
    /\ \E span \in held :
        /\ held' = (held \ {span}) \cup {Span_close(span, now)}
        /\ ret' = [op |-> "finalize_span_for_test"]
    /\ UNCHANGED <<ctx, now, built, finalized, created, notes, codecVars, reporterVars>>

\* mutant: the conversion takes the spans out of the context
convert_segment_object_draining ==
    /\ ret' = [op |-> "convert_segment_object", res |-> convert_segment_object_result(ctx)]
    /\ ctx' = [ctx EXCEPT !.spans = <<>>]
    /\ UNCHANGED <<held, now, built, created, notes, finalized, codecVars, reporterVars>>

convert_segment_object ==
    /\ ret' = [op |-> "convert_segment_object", res |-> convert_segment_object_result(ctx)]
    /\ UNCHANGED <<ctxVars, codecVars, reporterVars>>

\* the clock behind time_fetcher moves on
Tick ==
    /\ now < MaxTime
    /\ now' = now + 1
    /\ ret' = [op |-> "tick"]
    /\ UNCHANGED <<ctx, held, built, finalized, created, notes, codecVars, reporterVars>>

\* encode_propagation(&context, endpoint, address)
encode ==
    /\ \E in \in EncodeInputs :
        ret' = [op |-> "encode_propagation", endpoint |-> in[2], address |-> in[3],
                next_span_id |-> ctx.next_span_id,
                res |-> encode_propagation(ctx, in[1], in[2], in[3])]
    /\ UNCHANGED <<ctxVars, codecVars, reporterVars>>

\* decode_propagation(&enc_prop) on the header encode_propagation returned
decode_encoded ==
    /\ ret.op = "encode_propagation"
    /\ ret' = [op |-> "decode_propagation", endpoint |-> ret.endpoint,
               address |-> ret.address, next_span_id |-> ret.next_span_id,
               header |-> ret.res, res |-> decode(ret.res)]
    /\ UNCHANGED <<ctxVars, codecVars, reporterVars>>

Next ==
    \/ create_entry_span
    \/ create_exit_span
    \/ add_tag
    \/ add_log
    \/ close
    \/ finalize_span
    \/ finalize_span_for_test
    \/ convert_segment_object
    \/ encode
    \/ decode_encoded

\* the context with a frozen clock (the MockTimeFetcher of the tests)
Spec == Init /\ [][Next]_vars

NextClock ==
    \/ Next
    \/ Tick

\* the context with a clock that moves
SpecClock == Init /\ [][NextClock]_vars

\* ------------------------------------------------------------------------
\* Two spans in the hands of the caller, under a clock that moves
\* ------------------------------------------------------------------------
\* the context of test create_span after its entry span got the log and the
\* tag of the test and an exit span was created; both spans are still open
InitSpan ==
    LET context == TracingContext_default(S_id_a, S_id_b, S_service, S_instance)
        span1 == entry_span_result(context, S_op1, 1).val
        span3 == exit_span_result([context EXCEPT !.next_span_id = 1], S_op1, S_peer, 1).val
        message == CHOOSE m \in LogInputs : TRUE
        tag == CHOOSE t \in TagInputs : TRUE
    IN  /\ ctx = [context EXCEPT !.next_span_id = 2]
        /\ built = [by |-> "default", service_name |-> S_service, instance_name |-> S_instance]
        /\ held = {Span_add_tag(Span_add_log(span1, message, 1), tag), span3}
        /\ created = <<span1, span3>>
        /\ now = 1
        /\ notes = 0
        /\ finalized = <<>>
        /\ ret = [op |-> "new"]
        /\ header_value = <<>>
        /\ edits = 0
        /\ NoReporter

\* what the caller can do with the spans it holds
NextSpan ==
    \/ add_tag
    \/ add_log
    \/ close
    \/ finalize_span_for_test
    \/ finalize_span
    \/ Tick

SpecSpan == InitSpan /\ [][NextSpan]_vars

\* ------------------------------------------------------------------------
\* The decoder on arbitrary headers
\* ------------------------------------------------------------------------
MaxEdits == 1

F_0 == <<48>>   \* "0"

F_3 == <<51>>   \* "3", not a sample flag

F_x == <<120>>   \* "x"

F_plus7 == <<43, 55>>   \* "+7"

F_minus1 == <<45, 49>>   \* "-1": the '-' makes it two pieces

F_MQ == <<77, 81, 61, 61>>   \* "MQ==", base64 of "1"

F_MR == <<77, 82, 61, 61>>   \* "MR==", bits left over in the last symbol

F_MQ_nopad == <<77, 81>>   \* "MQ", padding missing

F_star == <<77, 42, 61, 61>>   \* "M*==", a byte outside the alphabet

F_ff == <<47, 119, 61, 61>>   \* "/w==", base64 of the byte 0xFF, which is no UTF-8

F_max == <<52, 50, 57, 52, 57, 54, 55, 50, 57, 53>>   \* "4294967295"

F_big == <<52, 50, 57, 52, 57, 54, 55, 50, 57, 54>>   \* "4294967296"

F_hogehoge == <<104, 111, 103, 101, 104, 111, 103, 101>>   \* "hogehoge"

F_zeros7 == <<48, 48, 48, 48, 48, 48, 48, 48, 48, 48, 55>>   \* "00000000007"

F_huge == <<57, 57, 57, 57, 57, 57, 57, 57, 57, 57, 57>>   \* "99999999999"

FieldPool == {S_empty, F_0, F_3, F_x, F_plus7, F_minus1, F_MQ, F_MR, F_MQ_nopad,
              F_star, F_ff, F_max, F_big, F_zeros7, F_huge, F_hogehoge}

InitCodec ==
    /\ ctx = TracingContext_default(S_id_a, S_id_b, S_service, S_instance)
    /\ built = [by |-> "default", service_name |-> S_service, instance_name |-> S_instance]
    /\ held = {}
    /\ now = 1
    /\ created = <<>>
    /\ notes = 0
    /\ finalized = <<>>
    /\ ret = [op |-> "new"]
    /\ header_value \in BaseHeaders
    /\ edits = 0
    /\ NoReporter

\* a header whose i-th field is another one
replace_field ==
    /\ edits < MaxEdits
    /\ \E i \in 1..Len(Split(header_value)), f \in FieldPool :
        header_value' = Join([Split(header_value) EXCEPT ![i] = f])
    /\ edits' = edits + 1
    /\ ret' = [op |-> "new"]
    /\ UNCHANGED <<ctxVars, reporterVars>>

\* a header that lost its last field (test less_field)
remove_last_field ==
    /\ edits < MaxEdits
    /\ Len(Split(header_value)) > 1
    /\ header_value' = Join(SubSeq(Split(header_value), 1, Len(Split(header_value)) - 1))
    /\ edits' = edits + 1
    /\ ret' = [op |-> "new"]
    /\ UNCHANGED <<ctxVars, reporterVars>>

\* a header with one more field (test more_field)
append_field ==
    /\ edits < MaxEdits
    /\ \E f \in FieldPool : header_value' = header_value \o <<Dash>> \o f
    /\ edits' = edits + 1
    /\ ret' = [op |-> "new"]
    /\ UNCHANGED <<ctxVars, reporterVars>>

\* ContextDecoder::new(header_value).decode()
ContextDecoder_decode ==
    /\ ret' = [op |-> "decode", res |-> decode(header_value)]
    /\ UNCHANGED <<ctxVars, codecVars, reporterVars>>

NextCodec ==
    \/ replace_field
    \/ remove_last_field
    \/ append_field
    \/ ContextDecoder_decode

SpecCodec == InitCodec /\ [][NextCodec]_vars

\* ------------------------------------------------------------------------
\* Reporter (src/src/reporter/grpc.rs)
\* ------------------------------------------------------------------------
\* mpsc::channel(32)
ChannelCapacity == 32

NumSubmitters == 2

MaxSends == 2

Submitters == 1..NumSubmitters

\* the k-th context submitter s sends: a context of its own, the first one
\* with its entry span finalized
SubmitterContext(s, k) ==
    LET context == TracingContext_default(<<116, 48 + s>>, <<103, 48 + s, 48 + k>>,
                                          S_service, S_instance)
        span == entry_span_result(context, S_op1, 1).val
    IN  IF k = 1
        THEN [context EXCEPT !.next_span_id = 1, !.spans = <<Span_close(span, 1)>>]
        ELSE context

\* the Receiver is gone: the background task ended or panicked
Closed == task.pc \in {"done", "panicked"}

\* the state Reporter::start leaves: an empty channel, the task spawned and
\* waiting in rx.recv(), every submitter holding a clone of the Sender
InitReporter ==
    /\ ctx = TracingContext_default(S_id_a, S_id_b, S_service, S_instance)
    /\ built = [by |-> "default", service_name |-> S_service, instance_name |-> S_instance]
    /\ held = {}
    /\ now = 1
    /\ created = <<>>
    /\ notes = 0
    /\ finalized = <<>>
    /\ ret = [op |-> "new"]
    /\ header_value = <<>>
    /\ edits = 0
    /\ queue = <<>>
    /\ task = [pc |-> "recv", message |-> None]
    /\ attempts = <<>>
    /\ senders = [s \in Submitters |-> [alive |-> TRUE, todo |-> MaxSends, sent |-> 0]]
    /\ accepted = <<>>
    /\ refused = <<>>

\* mutant: a send on a full channel returns the context in an error (try_send)
send_or_fail ==
    /\ \E s \in Submitters :
        /\ senders[s].alive
        /\ senders[s].sent < senders[s].todo
        /\ LET context == SubmitterContext(s, senders[s].sent + 1) IN
           IF Closed \/ Len(queue) >= ChannelCapacity
           THEN /\ refused' = Append(refused, context)
                /\ UNCHANGED <<queue, accepted>>
           ELSE /\ queue' = Append(queue, context)
                /\ accepted' = Append(accepted, context)
                /\ UNCHANGED refused
        /\ senders' = [senders EXCEPT ![s].sent = @ + 1]
    /\ UNCHANGED <<task, attempts, ctxVars, ret, codecVars>>

\* tx.send(context).await: completes once the channel has room, or returns
\* the context in an error when the Receiver is gone
send ==
    /\ \E s \in Submitters :
        /\ senders[s].alive
        /\ senders[s].sent < senders[s].todo
        /\ LET context == SubmitterContext(s, senders[s].sent + 1) IN
           IF Closed
           THEN /\ refused' = Append(refused, context)
                /\ UNCHANGED <<queue, accepted>>
           ELSE /\ Len(queue) < ChannelCapacity
                /\ queue' = Append(queue, context)
                /\ accepted' = Append(accepted, context)
                /\ UNCHANGED refused
        /\ senders' = [senders EXCEPT ![s].sent = @ + 1]
    /\ UNCHANGED <<task, attempts, ctxVars, ret, codecVars>>

\* a submitter returns and its clone of the Sender is dropped
drop_sender ==
    /\ \E s \in Submitters :
        /\ senders[s].alive
        /\ senders' = [senders EXCEPT ![s].alive = FALSE]
    /\ UNCHANGED <<queue, task, attempts, accepted, refused, ctxVars, ret, codecVars>>

\* mutant: the task leaves the last message in the channel
recv_lagging ==
    /\ task.pc = "recv"
    /\ IF queue # <<>>
       THEN /\ Len(queue) >= 2
            /\ task' = [pc |-> "flush", message |-> Head(queue)]
            /\ queue' = Tail(queue)
       ELSE /\ \A s \in Submitters : ~senders[s].alive
            /\ task' = [pc |-> "done", message |-> None]
            /\ UNCHANGED queue
    /\ UNCHANGED <<attempts, senders, accepted, refused, ctxVars, ret, codecVars>>

\* mutant: the task takes the newest message
recv_newest ==
    /\ task.pc = "recv"
    /\ IF queue # <<>>
       THEN /\ task' = [pc |-> "flush", message |-> queue[Len(queue)]]
            /\ queue' = SubSeq(queue, 1, Len(queue) - 1)
       ELSE /\ \A s \in Submitters : ~senders[s].alive
            /\ task' = [pc |-> "done", message |-> None]
            /\ UNCHANGED queue
    /\ UNCHANGED <<attempts, senders, accepted, refused, ctxVars, ret, codecVars>>

\* rx.recv().await: the oldest message, or None once the channel is empty and
\* every Sender has been dropped, which ends the loop and the task
recv ==
    /\ task.pc = "recv"
    /\ IF queue # <<>>
       THEN /\ task' = [pc |-> "flush", message |-> Head(queue)]
            /\ queue' = Tail(queue)
       ELSE /\ \A s \in Submitters : ~senders[s].alive
            /\ task' = [pc |-> "done", message |-> None]
            /\ UNCHANGED queue
    /\ UNCHANGED <<attempts, senders, accepted, refused, ctxVars, ret, codecVars>>

\* mutant: a refused delivery is tried again
flush_retrying ==
    /\ task.pc = "flush"
    /\ \E ok \in BOOLEAN :
        /\ attempts' = Append(attempts,
                [stream |-> <<convert_segment_object_result(task.message)>>, ok |-> ok])
        /\ IF ok
           THEN task' = [pc |-> "recv", message |-> None]
           ELSE task' = task
        /\ UNCHANGED queue
    /\ Len(attempts) < 4
    /\ UNCHANGED <<senders, accepted, refused, ctxVars, ret, codecVars>>

\* flush(&mut reporter, message.convert_segment_object()).await.unwrap():
\* one stream holding the one segment goes to the sink; if the sink refuses
\* it the unwrap panics, the task is gone and the Receiver with the messages
\* still in the channel is dropped
flush ==
    /\ task.pc = "flush"
    /\ \E ok \in BOOLEAN :
        /\ attempts' = Append(attempts,
                [stream |-> <<convert_segment_object_result(task.message)>>, ok |-> ok])
        /\ IF ok
           THEN /\ task' = [pc |-> "recv", message |-> None]
                /\ UNCHANGED queue
           ELSE /\ task' = [pc |-> "panicked", message |-> None]
                /\ queue' = <<>>
    /\ UNCHANGED <<senders, accepted, refused, ctxVars, ret, codecVars>>

NextReporter ==
    \/ send
    \/ drop_sender
    \/ recv
    \/ flush

SpecReporter == InitReporter /\ [][NextReporter]_vars

\* Reporter::start with one submitter that has more contexts to send than
\* the channel holds; the other submitters hold a Sender and send nothing
InitReporterFull ==
    /\ ctx = TracingContext_default(S_id_a, S_id_b, S_service, S_instance)
    /\ built = [by |-> "default", service_name |-> S_service, instance_name |-> S_instance]
    /\ held = {}
    /\ now = 1
    /\ created = <<>>
    /\ notes = 0
    /\ finalized = <<>>
    /\ ret = [op |-> "new"]
    /\ header_value = <<>>
    /\ edits = 0
    /\ queue = <<>>
    /\ task = [pc |-> "recv", message |-> None]
    /\ attempts = <<>>
    /\ senders = [s \in Submitters |->
                    [alive |-> TRUE,
                     todo |-> IF s = 1 THEN ChannelCapacity + MaxSends ELSE 0,
                     sent |-> 0]]
    /\ accepted = <<>>
    /\ refused = <<>>

SpecReporterFull == InitReporterFull /\ [][NextReporter]_vars

\* the same, with the spawned task scheduled fairly by the runtime: a step of
\* the task that stays possible is taken
SpecReporterFair == SpecReporterFull /\ WF_vars(recv) /\ WF_vars(flush)

\* ------------------------------------------------------------------------
\* GrpcReporter (src/skywalking/src/reporter/grpc.rs) and the Reporter of
\* src/src/reporter.rs: a channel of 1024 segments whose Sender and Receiver
\* both belong to the reporter, and one collect call that streams from it
\* ------------------------------------------------------------------------
GrpcCapacity == 1024

RECURSIVE Decimal(_)
Decimal(n) == IF n < 10 THEN <<Digit0 + n>> ELSE Decimal(n \div 10) \o <<Digit0 + (n % 10)>>

\* the k-th SegmentObject the owner hands to the reporter
ReportedSegment(k) ==
    convert_segment_object_result(
        TracingContext_default(S_id_a, Decimal(k), S_service, S_instance))

\* the one Sender of the channel, a field of the reporter
Owner == 1

\* the reporter as connect returns it, or a GrpcReporter whose owner has
\* already reported GrpcCapacity - 1 segments; flush has not been called,
\* and the owner has MaxSends + 1 more segments to hand over
InitCollect ==
    /\ ctx = TracingContext_default(S_id_a, S_id_b, S_service, S_instance)
    /\ held = {}
    /\ now = 1
    /\ created = <<>>
    /\ notes = 0
    /\ finalized = <<>>
    /\ ret = [op |-> "connect"]
    /\ header_value = <<>>
    /\ edits = 0
    /\ task = [pc |-> "none", message |-> None]
    /\ attempts = <<>>
    /\ refused = <<>>
    /\ \E n \in {0, GrpcCapacity - 1} :
        /\ built \in IF n = 0
                     THEN {[by |-> "GrpcReporter::connect"], [by |-> "Reporter::connect"]}
                     ELSE {[by |-> "GrpcReporter::connect"]}
        /\ queue = [k \in 1..n |-> ReportedSegment(k)]
        /\ accepted = [k \in 1..n |-> ReportedSegment(k)]
        /\ senders = [s \in {Owner} |->
                        [alive |-> TRUE, todo |-> n + MaxSends + 1, sent |-> n]]

\* mutant: on a full channel the segment is dropped and report returns Ok
report_dropping ==
    /\ built.by = "GrpcReporter::connect"
    /\ task.pc = "none"
    /\ senders[Owner].sent < senders[Owner].todo
    /\ LET segment == ReportedSegment(senders[Owner].sent + 1) IN
       /\ IF Len(queue) < GrpcCapacity
          THEN /\ queue' = Append(queue, segment)
               /\ accepted' = Append(accepted, segment)
          ELSE UNCHANGED <<queue, accepted>>
       /\ ret' = [op |-> "report", res |-> Ok(None)]
       /\ UNCHANGED refused
    /\ senders' = [senders EXCEPT ![Owner].sent = @ + 1]
    /\ UNCHANGED <<task, attempts, ctxVars, codecVars>>

\* GrpcReporter::report: self.tx.try_send(ctx). The Receiver is a field of
\* the same reporter, so the channel is never closed under a report; flush
\* takes the reporter by &'static mut, after which no report can be made
report ==
    /\ built.by = "GrpcReporter::connect"
    /\ task.pc = "none"
    /\ senders[Owner].sent < senders[Owner].todo
    /\ LET segment == ReportedSegment(senders[Owner].sent + 1) IN
       IF Len(queue) < GrpcCapacity
       THEN /\ queue' = Append(queue, segment)
            /\ accepted' = Append(accepted, segment)
            /\ ret' = [op |-> "report", res |-> Ok(None)]
            /\ UNCHANGED refused
       ELSE /\ refused' = Append(refused, segment)
            /\ ret' = [op |-> "report", res |-> Err([Full |-> segment])]
            /\ UNCHANGED <<queue, accepted>>
    /\ senders' = [senders EXCEPT ![Owner].sent = @ + 1]
    /\ UNCHANGED <<task, attempts, ctxVars, codecVars>>

\* Reporter::send_message: self.sender.send(message); the future that send
\* returns is dropped without being awaited, so the message is dropped with
\* it and the channel is not touched. It needs &mut self, as flush does
\* while it runs
send_message ==
    /\ built.by = "Reporter::connect"
    /\ task.pc \in {"none", "failed"}
    /\ senders[Owner].sent < senders[Owner].todo
    /\ senders' = [senders EXCEPT ![Owner].sent = @ + 1]
    /\ ret' = [op |-> "send_message"]
    /\ UNCHANGED <<queue, task, attempts, accepted, refused, ctxVars, codecVars>>

\* GrpcReporter::flush / Reporter::flush is called: client.collect is handed
\* the stream over the Receiver
collect ==
    /\ task.pc = "none"
    /\ task' = [pc |-> "streaming", message |-> None]
    /\ attempts' = <<[stream |-> <<>>, ok |-> TRUE]>>
    /\ ret' = [op |-> "collect"]
    /\ UNCHANGED <<queue, senders, accepted, refused, ctxVars, codecVars>>

\* mutant: the stream ends as soon as the channel is empty
stream_next_draining ==
    /\ task.pc = "streaming"
    /\ IF queue # <<>>
       THEN /\ attempts' = [attempts EXCEPT ![1].stream = Append(@, Head(queue))]
            /\ queue' = Tail(queue)
            /\ ret' = [op |-> "stream_next"]
            /\ UNCHANGED task
       ELSE /\ task' = [pc |-> "returned", message |-> None]
            /\ ret' = [op |-> "flush", res |-> Ok(None)]
            /\ UNCHANGED <<queue, attempts>>
    /\ UNCHANGED <<senders, accepted, refused, ctxVars, codecVars>>

\* while let Some(msg) = rx.recv().await { yield msg }: the oldest segment
\* goes into the stream; on an empty channel recv waits, and returns None
\* only when every Sender is gone, which ends the stream and lets collect,
\* and with it flush, return Ok
stream_next ==
    /\ task.pc = "streaming"
    /\ IF queue # <<>>
       THEN /\ attempts' = [attempts EXCEPT ![1].stream = Append(@, Head(queue))]
            /\ queue' = Tail(queue)
            /\ ret' = [op |-> "stream_next"]
            /\ UNCHANGED task
       ELSE /\ \A s \in DOMAIN senders : ~senders[s].alive
            /\ task' = [pc |-> "returned", message |-> None]
            /\ ret' = [op |-> "flush", res |-> Ok(None)]
            /\ UNCHANGED <<queue, attempts>>
    /\ UNCHANGED <<senders, accepted, refused, ctxVars, codecVars>>

\* the collector answers the collect call with an error Status: flush
\* returns Err; the Receiver stays with its owner
collect_error ==
    /\ task.pc = "streaming"
    /\ task' = [pc |-> "failed", message |-> None]
    /\ attempts' = [attempts EXCEPT ![1].ok = FALSE]
    /\ ret' = [op |-> "flush", res |-> Err("Status")]
    /\ UNCHANGED <<queue, senders, accepted, refused, ctxVars, codecVars>>

NextCollect ==
    \/ report
    \/ send_message
    \/ collect
    \/ stream_next
    \/ collect_error

SpecCollect == InitCollect /\ [][NextCollect]_vars

\* ------------------------------------------------------------------------
\* TracingContext over a SpanSet (src/src/tracing_context.rs and
\* src/skywalking/src/context/trace_context.rs): the spans live in the
\* context from their creation, the caller works on them through the
\* reference the create call returns
\* ------------------------------------------------------------------------
\* usize, 64 bits kept as four 16-bit limbs, the most significant first
UsizeOf(n) == <<0, 0, n \div Limb, n % Limb>>

\* u - 1 as the machine computes it, wrapping below zero
UsizeWrappingSub1(u) ==
    IF u[4] > 0 THEN [u EXCEPT ![4] = @ - 1]
    ELSE IF u[3] > 0 THEN [u EXCEPT ![3] = @ - 1, ![4] = Limb - 1]
    ELSE IF u[2] > 0 THEN [u EXCEPT ![2] = @ - 1, ![3] = Limb - 1, ![4] = Limb - 1]
    ELSE IF u[1] > 0 THEN <<u[1] - 1, Limb - 1, Limb - 1, Limb - 1>>
    ELSE <<Limb - 1, Limb - 1, Limb - 1, Limb - 1>>

\* u as i32: the low 32 bits, read in two's complement
UsizeAsI32(u) == (IF u[3] >= Limb \div 2 THEN u[3] - Limb ELSE u[3]) * Limb + u[4]

S_op2 == <<111, 112, 50>>   \* "op2"

S_op3 == <<111, 112, 51>>   \* "op3"

SpanSetOperationNames == {S_op1, S_op2, S_op3}

\* SpanSet::len
SpanSet_len(self) == UsizeOf(Len(self.spans))

SpanSet_entry_span_result(self, operation_name, time) ==
    IF SpanSet_len(self) # UsizeOf(0)
    THEN Err("failed to create entry span: the entry span has exist already")
    ELSE LET parent_span_id == UsizeAsI32(SpanSet_len(self)) - 1
         IN  Ok(Span_new(parent_span_id, operation_name, S_empty,
                         SpanType_Entry, SpanLayer_Http, FALSE, time))

\* mutant: the parent is taken to be the length itself
SpanSet_exit_span_result_len(self, operation_name, remote_peer, time, overflow_checks) ==
    Ok(Span_new(UsizeAsI32(SpanSet_len(self)), operation_name, remote_peer,
                SpanType_Exit, SpanLayer_Http, FALSE, time))

\* self.spans.len() - 1 is a subtraction on usize: on an empty SpanSet it
\* panics in a build with overflow checks (debug) and wraps to usize::MAX in
\* a build without them (release), which `as i32` turns into -1
SpanSet_exit_span_result(self, operation_name, remote_peer, time, overflow_checks) ==
    IF overflow_checks /\ SpanSet_len(self) = UsizeOf(0)
    THEN Err("attempt to subtract with overflow")
    ELSE LET parent_span_id == UsizeWrappingSub1(SpanSet_len(self))
         IN  Ok(Span_new(UsizeAsI32(parent_span_id), operation_name, remote_peer,
                         SpanType_Exit, SpanLayer_Http, FALSE, time))

\* TracingContext::default("service", "instance") in either build
InitSpanSet ==
    /\ ctx = [trace_id |-> S_id_a,
              trace_segment_id |-> S_id_b,
              service |-> S_service,
              service_instance |-> S_instance,
              spans |-> <<>>]
    /\ \E overflow_checks \in BOOLEAN :
        built = [by |-> "default", service_name |-> S_service,
                 instance_name |-> S_instance, overflow_checks |-> overflow_checks]
    /\ held = {}
    /\ now = 1
    /\ created = <<>>
    /\ notes = 0
    /\ finalized = <<>>
    /\ ret = [op |-> "new"]
    /\ header_value = <<>>
    /\ edits = 0
    /\ NoReporter

SpanSet_create_entry_span ==
    /\ \E operation_name \in SpanSetOperationNames :
        LET res == SpanSet_entry_span_result(ctx, operation_name, now) IN
        /\ ret' = [op |-> "create_entry_span", res |-> res]
        /\ IF res.ok
           THEN ctx' = [ctx EXCEPT !.spans = Append(@, res.val)]
           ELSE UNCHANGED ctx
    /\ UNCHANGED <<held, now, built, created, notes, finalized, codecVars, reporterVars>>

SpanSet_create_exit_span ==
    /\ Len(ctx.spans) < MaxSpans
    /\ \E operation_name \in SpanSetOperationNames, remote_peer \in RemotePeers :
        LET res == SpanSet_exit_span_result(ctx, operation_name, remote_peer, now,
                                            built.overflow_checks) IN
        /\ ret' = [op |-> "create_exit_span", res |-> res]
        /\ IF res.ok
           THEN ctx' = [ctx EXCEPT !.spans = Append(@, res.val)]
           ELSE UNCHANGED ctx
    /\ UNCHANGED <<held, now, built, created, notes, finalized, codecVars, reporterVars>>

\* span.close() through the reference the create call returned, which is
\* the last span of the SpanSet
SpanSet_close ==
    /\ ctx.spans # <<>>
    /\ ctx' = [ctx EXCEPT !.spans[Len(ctx.spans)] = Span_close(@, now)]
    /\ ret' = [op |-> "close"]
    /\ UNCHANGED <<held, now, built, created, notes, finalized, codecVars, reporterVars>>

NextSpanSet ==
    \/ SpanSet_create_entry_span
    \/ SpanSet_create_exit_span
    \/ SpanSet_close
    \/ Tick

SpecSpanSet == InitSpanSet /\ [][NextSpanSet]_vars

\* ------------------------------------------------------------------------
\* Properties
\* ------------------------------------------------------------------------
Range(seq) == {seq[i] : i \in DOMAIN seq}

IsCreate == ret.op \in {"create_entry_span", "create_exit_span"}

EntryCreated(n) == \E i \in 1..n : created[i].span_type = SpanType_Entry

\* C1: create_entry_span succeeds exactly when no span has been created on the
\* context yet (next_span_id = 0); every later call returns an error, finalized
\* or not, so at most one Entry span is ever created per context.
C1_EntrySpanOnce ==
    /\ ret.op = "create_entry_span" =>
        /\ ret.res.ok <=> ret.ncreated = 0
        /\ ret.res.ok <=> ret.pre = 0
    /\ Cardinality({i \in DOMAIN created : created[i].span_type = SpanType_Entry}) <= 1

\* a second create_entry_span was refused while the first entry span is still
\* open in the caller's hands, on a context built from a propagated context
C1_Witness ==
    /\ ret.op = "create_entry_span"
    /\ ~ret.res.ok
    /\ built.by = "from_propagation_context"
    /\ \E s \in held : s.span_type = SpanType_Entry /\ s.end_time = 0

\* C2: create_exit_span returns an error when no entry span has been created
\* (next_span_id = 0) and succeeds on every call after one was, whatever the
\* number of exit spans and whether or not earlier spans are still open.
C2_ExitSpanNeedsEntry ==
    ret.op = "create_exit_span" =>
        /\ ret.res.ok <=> EntryCreated(ret.ncreated)
        /\ ret.res.ok <=> ret.pre # 0

\* a second exit span was created while the entry span is still open
C2_Witness ==
    /\ ret.op = "create_exit_span"
    /\ ret.res.ok
    /\ ret.ncreated = 2
    /\ \E s \in held : s.span_type = SpanType_Entry /\ s.end_time = 0

C4_ParentIsNextSpanId ==
    (IsCreate /\ ret.res.ok) =>
        /\ ret.res.val.parent_span_id = ret.pre
        /\ ret.res.val.span_id = ret.res.val.parent_span_id + 1
        /\ ret.op = "create_entry_span" =>
            ret.res.val.span_id = 1 /\ ret.res.val.parent_span_id = 0
        /\ (ret.op = "create_exit_span" /\ ret.ncreated = 1) =>
            ret.res.val.span_id = 2 /\ ret.res.val.parent_span_id = 1

\* the exit span right after the entry span was returned
C4_Witness ==
    /\ ret.op = "create_exit_span"
    /\ ret.res.ok
    /\ ret.ncreated = 1
    /\ ret.res.val.span_id = 2

IsSegment == ret.op = "convert_segment_object"

C6_RoundTrip ==
    ret.op = "decode_propagation" =>
        /\ ret.res.ok
        /\ ret.res.val.parent_trace_id = ctx.trace_id
        /\ ret.res.val.parent_trace_segment_id = ctx.trace_segment_id
        /\ ret.res.val.parent_service = ctx.service
        /\ ret.res.val.parent_service_instance = ctx.service_instance
        /\ ret.res.val.destination_endpoint = ret.endpoint
        /\ ret.res.val.destination_address = ret.address

\* a header with a two-byte character, an empty instance and an empty endpoint
\* made the round trip after spans had been created
C6_Witness ==
    /\ ret.op = "decode_propagation"
    /\ ret.res.ok
    /\ ctx.service = S_cafe
    /\ ctx.service_instance = S_empty
    /\ ret.endpoint = S_empty
    /\ ctx.next_span_id >= 2

DashCount(s) == Cardinality({i \in DOMAIN s : s[i] = Dash})

\* C7: decode returns an error for every header that does not consist of
\* exactly 8 '-'-separated fields (exactly seven '-'), whatever the fields hold.
C7_EightFields ==
    (ret.op = "decode" /\ DashCount(header_value) # 7) => ~ret.res.ok

\* the header of test more_field, eight valid fields and a ninth, was refused
C7_Witness ==
    /\ ret.op = "decode"
    /\ header_value = H_basic \o <<Dash>> \o F_hogehoge
    /\ DashCount(header_value) = 8
    /\ ~ret.res.ok

IsSampleFlag(f) == f \in {<<Digit0>>, <<Digit1>>}

IsSpanIdText(f) == ParseU32(f).ok

IsBase64Text(f) == B64Decode(f).ok /\ Utf8Valid(B64Decode(f).val)

C9_FieldOrder ==
    (ret.op = "decode" /\ ret.res.ok) =>
        LET p == Split(header_value)
            v == ret.res.val
        IN  /\ v.do_sample = (p[1] = <<Digit1>>)
            /\ B64Encode(v.parent_trace_id) = p[2]
            /\ B64Encode(v.parent_trace_segment_id) = p[3]
            /\ v.parent_span_id = ParseU32(p[4]).val
            /\ B64Encode(v.parent_service) = p[5]
            /\ B64Encode(v.parent_service_instance) = p[6]
            /\ B64Encode(v.destination_endpoint) = p[7]
            /\ B64Encode(v.destination_address) = p[8]
            /\ header_value = H_basic =>
                v = [do_sample |-> TRUE, parent_trace_id |-> S_1,
                     parent_trace_segment_id |-> S_5, parent_span_id |-> U32Of(3),
                     parent_service |-> S_mesh, parent_service_instance |-> S_instance,
                     destination_endpoint |-> S_health, destination_address |-> S_example]

\* the header of the test was decoded
C9_Witness ==
    /\ ret.op = "decode"
    /\ ret.res.ok
    /\ header_value = H_basic

AllSpans == held \cup Range(ctx.spans) \cup Range(created)

\* C10: a span carries exactly one SegmentReference if it is the entry span of
\* a context built by from_propagation_context, and none otherwise; the
\* reference copies parent_trace_segment_id, parent_span_id, parent_service,
\* parent_service_instance, destination_endpoint (as parent_endpoint) and
\* destination_address (as network address) from the propagation context and
\* trace_id from the context.
C10_SegmentReference ==
    \A s \in AllSpans :
        IF s.span_type = SpanType_Entry /\ built.by = "from_propagation_context"
        THEN s.refs = <<[ref_type |-> RefType_CrossProcess,
                         trace_id |-> ctx.trace_id,
                         parent_trace_segment_id |-> built.context.parent_trace_segment_id,
                         parent_span_id |-> built.context.parent_span_id,
                         parent_service |-> built.context.parent_service,
                         parent_service_instance |-> built.context.parent_service_instance,
                         parent_endpoint |-> built.context.destination_endpoint,
                         network_address_used_at_peer |->
                             built.context.destination_address]>>
        ELSE s.refs = <<>>

\* the context built from the header of the test finalized its entry span,
\* which refers to service "mesh", instance "instance", and an exit span
C10_Witness ==
    /\ built.by = "from_propagation_context"
    /\ \E s \in Range(ctx.spans) :
        /\ s.span_type = SpanType_Entry
        /\ Len(s.refs) = 1
        /\ s.refs[1].parent_service = S_mesh
        /\ s.refs[1].parent_service_instance = S_instance
    /\ \E s \in Range(ctx.spans) : s.span_type = SpanType_Exit

\* C11: a context just built by from_propagation_context has the trace_id of
\* the propagation context, a trace_segment_id that is not the parent's
\* trace_segment_id, the parent's service and service instance, next_span_id
\* 0, no spans, and the propagation context as its segment_link.
C11_FromPropagationContext ==
    (ret.op = "new" /\ built.by = "from_propagation_context") =>
        /\ ctx.trace_id = built.context.parent_trace_id
        /\ ctx.trace_segment_id # built.context.parent_trace_segment_id
        /\ ctx.service = built.context.parent_service
        /\ ctx.service_instance = built.context.parent_service_instance
        /\ ctx.next_span_id = 0
        /\ ctx.spans = <<>>
        /\ ctx.segment_link = built.context

\* the context of test create_span_from_context: service "mesh", instance
\* "instance", built from the decoded header of the test
C11_Witness ==
    /\ ret.op = "new"
    /\ built.by = "from_propagation_context"
    /\ built.context = decode(H_basic).val
    /\ ctx.service = S_mesh
    /\ ctx.service_instance = S_instance

\* C12: a context just built by TracingContext::default has next_span_id 0,
\* no spans, no segment_link, and the service and instance names it was given.
C12_Default ==
    (ret.op = "new" /\ built.by = "default") =>
        /\ ctx.next_span_id = 0
        /\ ctx.spans = <<>>
        /\ ctx.segment_link = None
        /\ ctx.service = built.service_name
        /\ ctx.service_instance = built.instance_name

\* a default context whose instance name is the empty string
C12_Witness ==
    /\ ret.op = "new"
    /\ built.by = "default"
    /\ ctx.service = S_cafe
    /\ ctx.service_instance = S_empty
    /\ ctx.segment_link = None

\* C13: every span of a segment returned by convert_segment_object has been
\* closed (its end_time is set), and no span the caller still holds, created
\* but not passed to finalize_span, is in the segment.
C13_OnlyClosedSpans ==
    IsSegment => \A s \in Range(ret.res.spans) :
        /\ s.end_time # 0
        /\ \A h \in held : h.span_id # s.span_id

\* a segment with a span in it, returned while the caller held an open span
C13_Witness ==
    /\ IsSegment
    /\ ret.res.spans # <<>>
    /\ \E h \in held : h.end_time = 0

\* C14: create_entry_span, create_exit_span and finalize_span_for_test leave
\* the span list of the context unchanged, and a created span is in the
\* segment returned by convert_segment_object exactly if finalize_span was
\* called on it.
C14_OnlyFinalizeSpan ==
    [][/\ ret'.op \in {"create_entry_span", "create_exit_span", "finalize_span_for_test"}
            => ctx'.spans = ctx.spans
       /\ ret'.op = "convert_segment_object"
            => \A c \in Range(created') :
                (\E s \in Range(ret'.res.spans) : s.span_id = c.span_id)
                    <=> (\E f \in Range(finalized') : f.span_id = c.span_id)]_vars

\* a segment returned while a span closed by finalize_span_for_test alone was
\* still with the caller, and another span had gone through finalize_span
C14_Witness ==
    /\ IsSegment
    /\ ret.res.spans # <<>>
    /\ \E h \in held :
        /\ h.end_time # 0
        /\ \A s \in Range(ret.res.spans) : s.span_id # h.span_id

\* C15: the span list of the segment returned by convert_segment_object is
\* the sequence of spans passed to finalize_span, in the order of the calls,
\* each with the end_time finalize_span gave it.
C15_FinalizeOrder ==
    IsSegment =>
        /\ Len(ret.res.spans) = Len(finalized)
        /\ \A i \in DOMAIN finalized : WithoutEndTime(ret.res.spans[i]) = finalized[i]

\* a segment whose first span is an exit span and whose second span is the
\* entry span, finalized after it
C15_Witness ==
    /\ IsSegment
    /\ Len(ret.res.spans) >= 2
    /\ ret.res.spans[1].span_type = SpanType_Exit
    /\ ret.res.spans[2].span_type = SpanType_Entry
    /\ ret.res.spans[1].span_id > ret.res.spans[2].span_id

\* C16: convert_segment_object changes no field of the context; a call right
\* after another call returns an equal segment; the segment returned holds the
\* span list the context has at the time of the call, one span per
\* finalize_span call made so far.
C16_ConvertIsPure ==
    [][ret'.op = "convert_segment_object" =>
        /\ ctx' = ctx
        /\ ret.op = "convert_segment_object" => ret'.res = ret.res
        /\ ret'.res.spans = ctx.spans
        /\ Len(ret'.res.spans) = Len(finalized)]_vars

\* a segment of two spans returned while a third span was still with the caller
C16_Witness ==
    /\ IsSegment
    /\ Len(ret.res.spans) = 2
    /\ Len(finalized) = 2
    /\ held # {}
    /\ ctx.next_span_id = 3

\* C17: no step appends a tag or a log to a span that is closed: a span the
\* caller holds with its end_time set keeps its tags and its logs.
C17_NoAppendAfterClose ==
    [][\A s \in held, t \in held' :
        (t.span_id = s.span_id /\ s.end_time # 0) =>
            (t.tags = s.tags /\ t.logs = s.logs)]_vars

\* C18: no step records a new end_time for a span that is closed: a span the
\* caller holds with its end_time set keeps that end_time, with the caller
\* and in the span list of the context.
C18_ClosedOnce ==
    [][\A s \in held : s.end_time # 0 =>
        \A t \in held' \cup Range(ctx'.spans) :
            t.span_id = s.span_id => t.end_time = s.end_time]_vars

\* the segments the sink was handed, the segment the task is about to hand
\* over, and the segments of the contexts still in the channel
Attempted == [i \in DOMAIN attempts |-> attempts[i].stream[1]]

InFlight == IF task.message = None THEN <<>> ELSE <<convert_segment_object_result(task.message)>>

Queued == [i \in DOMAIN queue |-> convert_segment_object_result(queue[i])]

AcceptedSegments == [i \in DOMAIN accepted |-> convert_segment_object_result(accepted[i])]

SinkAcceptsAll == \A i \in DOMAIN attempts : attempts[i].ok

\* C19: as long as the sink has accepted every delivery, the segments the sink
\* received, one per stream, followed by the one in the hands of the task and
\* those still in the channel, are the contexts whose send was accepted, in
\* the order of acceptance: none lost, none twice, none out of order.
C19_DeliveredInOrder ==
    SinkAcceptsAll =>
        /\ \A i \in DOMAIN attempts : Len(attempts[i].stream) = 1
        /\ Attempted \o InFlight \o Queued = AcceptedSegments
        /\ refused = <<>>

\* two submitters sent two contexts each, their sends interleaved, and the
\* sink has received all four
C19_Witness ==
    /\ SinkAcceptsAll
    /\ Len(attempts) = 4
    /\ Attempted = AcceptedSegments
    /\ accepted[1] = SubmitterContext(2, 1)
    /\ accepted[2] = SubmitterContext(1, 1)
    /\ accepted[3] = SubmitterContext(2, 2)
    /\ accepted[4] = SubmitterContext(1, 2)

\* C20: after a delivery to the sink has failed the Reporter keeps working:
\* every context whose send was accepted has gone to the sink, is in the
\* hands of the task or is still in the channel, and no send is refused.
C20_SurvivesFailure ==
    ~SinkAcceptsAll =>
        /\ Attempted \o InFlight \o Queued = AcceptedSegments
        /\ refused = <<>>

\* C21: every delivery attempt made on the sink, accepted or refused, is a
\* stream of one segment, the i-th attempt carries the i-th context the
\* channel accepted, and no two attempts carry the same segment: a segment
\* is handed to the sink at most once, also when the sink refused it.
C21_NoRetry ==
    /\ Len(attempts) <= Len(accepted)
    /\ \A i \in DOMAIN attempts :
        /\ Len(attempts[i].stream) = 1
        /\ attempts[i].stream[1] = AcceptedSegments[i]
    /\ \A i, j \in DOMAIN attempts : i # j => attempts[i].stream # attempts[j].stream

\* the sink refused the second delivery, and a context sent after that was
\* turned away; the refused segment was not offered again
C21_Witness ==
    /\ Len(attempts) = 2
    /\ attempts[1].ok
    /\ ~attempts[2].ok
    /\ Len(accepted) = 3
    /\ refused # <<>>

\* the sink accepted a stream that holds the segment of this context and
\* nothing else
Delivered(context) ==
    \E i \in DOMAIN attempts :
        /\ attempts[i].ok
        /\ attempts[i].stream = <<convert_segment_object_result(context)>>

\* C22: with the background task scheduled fairly, every context whose send
\* the channel accepted is eventually delivered to the sink as a stream of
\* exactly its one segment, unless the sink refuses a delivery: again and
\* again the task has delivered every context accepted so far.
C22_EventuallyDelivered ==
    []<>(~SinkAcceptsAll \/ \A i \in DOMAIN accepted : Delivered(accepted[i]))

\* every context of the submitter was delivered, the last ones after they
\* had waited for room in the channel
C22_Witness ==
    /\ SinkAcceptsAll
    /\ Len(accepted) = ChannelCapacity + MaxSends
    /\ \A k \in 1..(ChannelCapacity + MaxSends) : Delivered(SubmitterContext(1, k))
    /\ task.pc = "recv"

\* C23: the channel never holds more than 32 contexts; while the Receiver
\* lives, a send on a channel that is not full can complete at once and a
\* completed send has put its context at the end of the channel without an
\* error; on a full channel no send completes (the submitter stays suspended
\* in it) until the task has taken a message, and then the same context goes
\* in: the contexts of a submitter are accepted one after the other, none
\* skipped.
C23_BoundedChannel ==
    [][/\ Len(queue') <= ChannelCapacity
       /\ \A s \in Submitters :
            (senders'[s].sent # senders[s].sent /\ ~Closed) =>
                /\ Len(queue) < ChannelCapacity
                /\ queue' = Append(queue, SubmitterContext(s, senders[s].sent + 1))
                /\ accepted' = Append(accepted, SubmitterContext(s, senders[s].sent + 1))
                /\ refused' = refused
       /\ (~Closed /\ Len(queue) = ChannelCapacity) => ~ENABLED send
       /\ (/\ ~Closed
           /\ Len(queue) < ChannelCapacity
           /\ \E s \in Submitters : senders[s].alive /\ senders[s].sent < senders[s].todo)
            => ENABLED send]_vars

\* the channel was full, the task took a message, and the send that had been
\* waiting put the 33rd context in: the channel is full again, nothing refused
C23_Witness ==
    /\ Len(queue) = ChannelCapacity
    /\ Len(accepted) = ChannelCapacity + 1
    /\ accepted[ChannelCapacity + 1] = SubmitterContext(1, ChannelCapacity + 1)
    /\ task.pc = "flush"
    /\ refused = <<>>

\* C24: next_span_id never decreases; a create_entry_span or create_exit_span
\* that succeeds adds exactly 1 to it; one that is refused, and
\* finalize_span_for_test and convert_segment_object, leave it and the span
\* list as they are; finalize_span leaves next_span_id as it is.
C24_NextSpanIdSteps ==
    [][/\ ctx'.next_span_id >= ctx.next_span_id
       /\ ret'.op \in {"create_entry_span", "create_exit_span"} =>
            IF ret'.res.ok
            THEN ctx'.next_span_id = ctx.next_span_id + 1
            ELSE ctx'.next_span_id = ctx.next_span_id /\ ctx'.spans = ctx.spans
       /\ ret'.op \in {"finalize_span_for_test", "convert_segment_object"} =>
            ctx'.next_span_id = ctx.next_span_id /\ ctx'.spans = ctx.spans
       /\ ret'.op = "finalize_span" => ctx'.next_span_id = ctx.next_span_id]_vars

\* create_entry_span was refused on a context that had created three spans
\* and finalized one of them
C24_Witness ==
    /\ ret.op = "create_entry_span"
    /\ ~ret.res.ok
    /\ ctx.next_span_id = 3
    /\ Len(ctx.spans) = 1

\* the entry span a downstream service creates on the context it builds from
\* the decoded header
DownstreamEntrySpan(context) ==
    LET trace_segment_id == <<99, 51>>   \* "c3", the segment id generated downstream
    IN  entry_span_result(TracingContext_from_propagation_context(trace_segment_id, context),
                          S_op1, now).val

\* C25: the header encoded for a context on which spans were created carries
\* in its parent span id field the span_id of the span created last; after
\* an entry span and one exit span that is the context's next_span_id, 2; the
\* decoded header gives the same number, and the entry span created
\* downstream from it carries it as the parent_span_id of its reference.
C25_ParentSpanIdInHeader ==
    (ret.op = "decode_propagation" /\ created # <<>>) =>
        LET last == created[Len(created)].span_id IN
        /\ Split(ret.header)[4] = ToDecimal(last)
        /\ ret.res.ok
        /\ ret.res.val.parent_span_id = U32Of(last)
        /\ Len(created) = 2 => (last = 2 /\ last = ctx.next_span_id)
        /\ Len(DownstreamEntrySpan(ret.res.val).refs) = 1
        /\ DownstreamEntrySpan(ret.res.val).refs[1].parent_span_id = U32Of(last)

\* the sequence of test crossprocess_test: an entry span and an exit span,
\* both closed by finalize_span_for_test, then the header encoded and decoded
C25_Witness ==
    /\ ret.op = "decode_propagation"
    /\ ret.res.ok
    /\ Len(created) = 2
    /\ created[2].span_type = SpanType_Exit
    /\ \A h \in held : h.end_time # 0
    /\ Cardinality(held) = 2
    /\ ret.res.val.parent_span_id = U32Of(2)

\* C26: end_time is 0 exactly while a span is open: a span returned by
\* create_entry_span or create_exit_span has end_time 0; the end_time of a
\* span the caller holds leaves 0 only in a close or finalize_span_for_test
\* step, each such step sets it for the span it is called on, and it never
\* returns to 0; every span in the finalized span list has end_time set.
C26_EndTimeZeroWhileOpen ==
    [][/\ (ret'.op \in {"create_entry_span", "create_exit_span"} /\ ret'.res.ok) =>
            ret'.res.val.end_time = 0
       /\ \A s \in Range(ctx'.spans) : s.end_time # 0
       /\ \A s \in held, t \in held' : t.span_id = s.span_id =>
            /\ (s.end_time = 0 /\ t.end_time # 0) =>
                    ret'.op \in {"close", "finalize_span_for_test"}
            /\ s.end_time # 0 => t.end_time # 0
       /\ ret'.op \in {"close", "finalize_span_for_test"} =>
            \E s \in held, t \in held' :
                /\ t.span_id = s.span_id
                /\ t.end_time # 0
                /\ held' = (held \ {s}) \cup {t}]_vars

\* the caller holds an open span and a closed one, and a third span is in the
\* finalized span list
C26_Witness ==
    /\ \E h \in held : h.end_time = 0
    /\ \E h \in held : h.end_time # 0
    /\ Len(ctx.spans) = 1
    /\ ctx.spans[1].end_time # 0

\* C27: add_tag puts exactly the pair it was given at the end of the span's
\* tags, add_log puts exactly one log at the end of the span's logs, with the
\* time of the time source and the pairs of the message in the order given;
\* the tags and logs the span had stay as they were, in place, and every
\* other field of the span (span_id, parent_span_id, start_time, end_time,
\* references among them) and every other span is left alone.
C27_AppendOnly ==
    [][/\ ret'.op = "add_tag" =>
            \E s \in held :
                held' = (held \ {s}) \cup
                    {[s EXCEPT !.tags = s.tags \o <<[key |-> S_hoge, value |-> S_fuga]>>]}
       /\ ret'.op = "add_log" =>
            \E s \in held :
                held' = (held \ {s}) \cup
                    {[s EXCEPT !.logs = s.logs \o
                        <<[time |-> now,
                           data |-> <<[key |-> S_hoge, value |-> S_fuga],
                                      [key |-> S_hoge2, value |-> S_fuga2]>>]>>]}]_vars

\* the span that had the log and the tag of the test got a second log, at a
\* later time than the first
C27_Witness ==
    /\ ret.op = "add_log"
    /\ \E h \in held :
        /\ Len(h.logs) = 2
        /\ Len(h.tags) = 1
        /\ h.logs[1].time < h.logs[2].time
        /\ h.logs[2].data[1].key = S_hoge
        /\ h.logs[2].data[2].key = S_hoge2

\* C28: every segment returned by convert_segment_object has the trace_id,
\* trace_segment_id, service and service_instance the context was built with
\* (from the names given to default, or from the propagation context), and
\* is_size_limited is false; the four fields of the context never change.
C28_SegmentIdentity ==
    [][/\ ctx'.trace_id = ctx.trace_id
       /\ ctx'.trace_segment_id = ctx.trace_segment_id
       /\ ctx'.service = ctx.service
       /\ ctx'.service_instance = ctx.service_instance
       /\ ret'.op = "convert_segment_object" =>
            /\ ret'.res.trace_id = ctx.trace_id
            /\ ret'.res.trace_segment_id = ctx.trace_segment_id
            /\ ret'.res.is_size_limited = FALSE
            /\ IF built.by = "default"
               THEN /\ ret'.res.service = built.service_name
                    /\ ret'.res.service_instance = built.instance_name
               ELSE /\ ret'.res.service = built.context.parent_service
                    /\ ret'.res.service_instance = built.context.parent_service_instance
                    /\ ret'.res.trace_id = built.context.parent_trace_id]_vars

\* a segment of the context built from the header of the test, returned after
\* three spans were created, one of them finalized and one given a tag or log
C28_Witness ==
    /\ IsSegment
    /\ built.by = "from_propagation_context"
    /\ ret.res.service = S_mesh
    /\ ret.res.service_instance = S_instance
    /\ ret.res.is_size_limited = FALSE
    /\ ctx.next_span_id = 3
    /\ Len(ret.res.spans) = 1
    /\ notes = 1

\* C29: the finalized span list of a context never holds two spans with the
\* same span_id, and it is never longer than the number of spans created on
\* the context (finalize_span takes the span from the caller, so that a span
\* is finalized at most once).
C29_FinalizedOnce ==
    /\ \A i, j \in DOMAIN ctx.spans :
            ctx.spans[i].span_id = ctx.spans[j].span_id => i = j
    /\ Len(ctx.spans) <= Len(created)
    /\ \A i \in DOMAIN ctx.spans :
            \E j \in DOMAIN created : created[j].span_id = ctx.spans[i].span_id

\* every created span was finalized, the exit span before the entry span
C29_Witness ==
    /\ ret.op = "finalize_span"
    /\ Len(created) = 2
    /\ Len(ctx.spans) = 2
    /\ held = {}
    /\ ctx.spans[1].span_id = created[2].span_id
    /\ ctx.spans[2].span_id = created[1].span_id

\* C30: under a time source that never goes backwards, every span of the
\* finalized span list has end_time >= start_time, and the time of each of
\* its logs lies between its start_time and its end_time.
C30_TimesOrdered ==
    \A i \in DOMAIN ctx.spans :
        LET span == ctx.spans[i] IN
        /\ span.end_time >= span.start_time
        /\ \A l \in DOMAIN span.logs :
                /\ span.start_time <= span.logs[l].time
                /\ span.logs[l].time <= span.end_time

\* a finalized span that was given a log after the clock had moved on
C30_Witness ==
    /\ ret.op = "finalize_span"
    /\ \E i \in DOMAIN ctx.spans :
        LET span == ctx.spans[i] IN
        /\ span.logs # <<>>
        /\ span.logs[Len(span.logs)].time > span.start_time
        /\ span.end_time = now

\* C31: once every Sender of the channel has been dropped, the background
\* task hands every context still in the channel to the sink, in order, and
\* only then ends; and while a Sender is alive and the sink accepts every
\* delivery the task does not end.
C31_DrainsThenTerminates ==
    [][(Closed' /\ ~Closed) =>
        /\ SinkAcceptsAll' => \A s \in Submitters : ~senders[s].alive
        /\ (\A s \in Submitters : ~senders[s].alive) =>
                /\ Attempted' = AcceptedSegments'
                /\ queue = <<>>]_vars

\* a numeral without its leading zeros (the last digit stays)
RECURSIVE StripZeros(_)
StripZeros(d) == IF Len(d) > 1 /\ d[1] = Digit0 THEN StripZeros(Tail(d)) ELSE d

\* a <= b for numerals of the same length, digit by digit
RECURSIVE NumeralLeq(_, _)
NumeralLeq(a, b) ==
    IF a = <<>> THEN TRUE
    ELSE IF a[1] # b[1] THEN a[1] < b[1]
    ELSE NumeralLeq(Tail(a), Tail(b))

\* d is a decimal numeral of a value in 0 .. 2^32 - 1
InU32Range(d) ==
    /\ d # <<>>
    /\ \A i \in DOMAIN d : IsDigit(d[i])
    /\ \/ Len(StripZeros(d)) < 10
       \/ Len(StripZeros(d)) = 10 /\ NumeralLeq(StripZeros(d), F_max)

\* the value of a numeral of at most nine digits
RECURSIVE DecimalValue(_)
DecimalValue(d) ==
    IF d = <<>> THEN 0 ELSE DecimalValue(SubSeq(d, 1, Len(d) - 1)) * 10 + (d[Len(d)] - Digit0)

\* C32: decode accepts a header only if its span-id field is a decimal
\* numeral (after an optional '+') of a value in 0 .. 2^32 - 1, and the
\* parent_span_id is that value: a numeral beyond 2^32 - 1 is refused, not
\* wrapped or truncated, and so is a field with a minus sign.
C32_SpanIdRange ==
    (ret.op = "decode" /\ ret.res.ok) =>
        LET id == Split(header_value)[4]
            d == IF id # <<>> /\ id[1] = Plus THEN Tail(id) ELSE id
        IN  /\ InU32Range(d)
            /\ Len(StripZeros(d)) < 10 =>
                    ret.res.val.parent_span_id = U32Of(DecimalValue(StripZeros(d)))
            /\ StripZeros(d) = F_max =>
                    ret.res.val.parent_span_id = <<Limb - 1, Limb - 1>>

\* the header of the test with 4294967296 for the span id was refused
C32_Witness ==
    /\ ret.op = "decode"
    /\ Len(Split(header_value)) = 8
    /\ Split(header_value)[4] = F_big
    /\ ret.res = Err("failed to parse span id from parent.")

\* C33: GrpcReporter::report never suspends its caller: a call can always
\* complete at once; with fewer than 1024 segments in the queue it puts the
\* segment at the end of the queue and returns Ok, and with 1024 segments in
\* the queue it returns an error that carries the segment back and leaves
\* the queue as it was.
C33_ReportNeverSuspends ==
    [][/\ (/\ built.by = "GrpcReporter::connect"
           /\ task.pc = "none"
           /\ senders[Owner].sent < senders[Owner].todo) => ENABLED report
       /\ ret'.op = "report" =>
            LET segment == ReportedSegment(senders[Owner].sent + 1) IN
            /\ Len(queue) <= GrpcCapacity
            /\ IF Len(queue) < GrpcCapacity
               THEN /\ ret'.res = Ok(None)
                    /\ queue' = Append(queue, segment)
               ELSE /\ ret'.res = Err([Full |-> segment])
                    /\ queue' = queue]_vars

\* the 1024th segment went in, the 1025th came back in the error
C33_Witness ==
    /\ ret = [op |-> "report", res |-> Err([Full |-> ReportedSegment(GrpcCapacity + 1)])]
    /\ Len(queue) = GrpcCapacity
    /\ queue[GrpcCapacity] = ReportedSegment(GrpcCapacity)
    /\ refused = <<ReportedSegment(GrpcCapacity + 1)>>

\* C34: GrpcReporter::flush makes one collect call, whose stream takes the
\* segments report accepted in the order of acceptance, none skipped and
\* none twice; the stream ends only when the channel is closed, and as the
\* reporter holds a Sender itself, flush never returns Ok: once the queue is
\* drained the stream waits for a further segment.
C34_OneEndlessStream ==
    built.by = "GrpcReporter::connect" =>
        /\ Len(attempts) <= 1
        /\ (task.pc = "none") = (attempts = <<>>)
        /\ attempts # <<>> => attempts[1].stream \o queue = accepted
        /\ task.pc # "returned"
        /\ senders[Owner].alive
        /\ (task.pc = "streaming" /\ queue = <<>>) => ~ENABLED stream_next

\* the stream has taken all 1024 segments of a full queue and flush is
\* still waiting in rx.recv()
C34_Witness ==
    /\ built.by = "GrpcReporter::connect"
    /\ task.pc = "streaming"
    /\ queue = <<>>
    /\ Len(accepted) = GrpcCapacity
    /\ attempts[1].stream = accepted
    /\ attempts[1].ok
    /\ refused # <<>>

\* C35: in the Reporter of src/src/reporter.rs every message passed to
\* send_message while the queue is below its capacity of 1024 is placed on
\* the channel, from where flush yields it to the collector stream: the
\* messages passed so far are those the stream has taken followed by those
\* in the queue.
C35_SendMessageEnqueues ==
    (built.by = "Reporter::connect" /\ senders[Owner].sent <= GrpcCapacity) =>
        (IF attempts = <<>> THEN <<>> ELSE attempts[1].stream) \o queue =
            [k \in 1..senders[Owner].sent |-> ReportedSegment(k)]

\* C36: in the TracingContext over a SpanSet a span created while the
\* context stores n spans is stored behind them with span_id n and
\* parent_span_id n - 1: the entry span of a new context has span_id 0 and
\* parent_span_id -1, the exit span after it span_id 1 and parent_span_id 0;
\* a create_entry_span that is rejected leaves the stored spans as they were.
C36_SpanSetNumbering ==
    [][ret'.op \in {"create_entry_span", "create_exit_span"} =>
        LET n == Len(ctx.spans) IN
        IF ret'.res.ok
        THEN /\ ctx'.spans = Append(ctx.spans, ret'.res.val)
             /\ ret'.res.val.span_id = n
             /\ ret'.res.val.parent_span_id = n - 1
             /\ ret'.op = "create_entry_span" =>
                    /\ n = 0
                    /\ ret'.res.val.span_type = SpanType_Entry
        ELSE /\ ctx'.spans = ctx.spans
             /\ ret'.op = "create_entry_span" => n > 0]_vars

\* the entry span and an exit span are stored, and a second
\* create_entry_span has just been rejected
C36_Witness ==
    /\ ret.op = "create_entry_span"
    /\ ~ret.res.ok
    /\ Len(ctx.spans) = 2
    /\ ctx.spans[1].span_type = SpanType_Entry
    /\ ctx.spans[1].span_id = 0
    /\ ctx.spans[1].parent_span_id = -1
    /\ ctx.spans[2].span_type = SpanType_Exit
    /\ ctx.spans[2].span_id = 1
    /\ ctx.spans[2].parent_span_id = 0

\* C37: create_exit_span on a context that stores no span is rejected; no
\* Exit span is ever stored with span_id 0 and parent_span_id -1.
C37_ExitNeedsEntry ==
    \A i \in DOMAIN ctx.spans :
        ~(/\ ctx.spans[i].span_type = SpanType_Exit
          /\ ctx.spans[i].span_id = 0
          /\ ctx.spans[i].parent_span_id = -1)

====
